---- MODULE Spec2Model ----
(***************************************************************************)
(* State-machine model of the GreenLife recycling-pickup application       *)
(* (src/app.py): the User / Pickup / UserChallenge tables and the request  *)
(* handlers index, signup, complete_challenge, rider_accept and            *)
(* rider_complete, with the pure functions calculate_points and the stage   *)
(* computation of the forest view.                                         *)
(*                                                                         *)
(* Spec      : requests are served one after the other, each handler is    *)
(*             one action (read, check, write, commit).                    *)
(* SpecConc  : two requests are in flight; every SELECT and every          *)
(*             flush+COMMIT of a handler is a step of its own.             *)
(* SpecCalls : calculate_points and the forest view are applied to inputs  *)
(*             drawn from bounded sets.                                    *)
(***************************************************************************)
EXTENDS Integers, Sequences, FiniteSets, TLC

(* ------------------------------ bounds -------------------------------- *)
\* rows the user table may hold (signup stops there)
MaxUsers == 1
\* rows of the rider table, ids 1..NumRiders
NumRiders == 3
\* rows the pickup table may hold (index stops there)
MaxPickups == 1
\* how often one pickup's completion may be credited before the model stops
MaxCredits == 2

\* largest integer quantity handed to calculate_points on its own
MaxQuantity == 4
\* largest tree level handed to the forest view on its own
MaxLevel == 51

(* ------------------------------ data ---------------------------------- *)
\* SQL NULL / Python None in an integer column (ids start at 1)
NULL == 0

RiderIds == 1..NumRiders

\* Challenge rows 1..4 with their points_reward (create_dummy_challenges)
Challenge == <<20, 15, 10, 5>>

\* challenge ids a request may carry: a stored challenge and an absent one
ChallengeInputs == {4, 5}

\* pickup ids a request may carry (an id above Len(pickups) matches no row)
PickupInputs == 1..MaxPickups

(* ----------------------- Python values and int() ---------------------- *)
PyInt(n) == [t |-> "int", v |-> n]
PyStr(s) == [t |-> "str", v |-> s]
PyNone == [t |-> "NoneType", v |-> 0]

Digits == {"0", "1", "2", "3", "4", "5", "6", "7", "8", "9"}

DigitValue(c) ==
    CASE c = "0" -> 0 [] c = "1" -> 1 [] c = "2" -> 2 [] c = "3" -> 3
      [] c = "4" -> 4 [] c = "5" -> 5 [] c = "6" -> 6 [] c = "7" -> 7
      [] c = "8" -> 8 [] c = "9" -> 9

AllDigits(s) == Len(s) > 0 /\ \A i \in 1..Len(s) : s[i] \in Digits

RECURSIVE DecimalValue(_)
DecimalValue(s) ==
    IF Len(s) = 0 THEN 0
    ELSE 10 * DecimalValue(SubSeq(s, 1, Len(s) - 1)) + DigitValue(s[Len(s)])

\* int(x): [ok |-> TRUE, v |-> n], or ok = FALSE for ValueError / TypeError.
\* A string is an optional sign followed by decimal digits.
int(x) ==
    CASE x.t = "int" -> [ok |-> TRUE, v |-> x.v]
      [] x.t = "NoneType" -> [ok |-> FALSE, v |-> 0]
      [] x.t = "str" ->
           LET s == x.v
               signed == Len(s) > 0 /\ s[1] \in {"-", "+"}
               body == IF signed THEN SubSeq(s, 2, Len(s)) ELSE s
           IN  IF AllDigits(body)
               THEN [ok |-> TRUE,
                     v |-> IF signed /\ s[1] = "-" THEN 0 - DecimalValue(body)
                           ELSE DecimalValue(body)]
               ELSE [ok |-> FALSE, v |-> 0]

(* --------------------------- scoring ---------------------------------- *)
\* variant of the table whose default for an unlisted item is 0
points_map_default_zero(item) ==
    CASE item = "Plastic Bottles" -> 2
      [] item = "Cardboard" -> 5
      [] item = "Electronics" -> 10
      [] item = "Metal" -> 8
      [] item = "Glass" -> 6
      [] item = "E-Waste" -> 12
      [] OTHER -> 0

\* points_map.get(item, 1)
points_map(item) ==
    CASE item = "Plastic Bottles" -> 2
      [] item = "Cardboard" -> 5
      [] item = "Electronics" -> 10
      [] item = "Metal" -> 8
      [] item = "Glass" -> 6
      [] item = "E-Waste" -> 12
      [] OTHER -> 1

calculate_points(item, qty) ==
    LET c == int(qty)
        qty_int == IF c.ok THEN c.v ELSE 0
    IN  points_map(item) * qty_int

(* --------------------------- forest stages ---------------------------- *)
\* tree_stages: (emoji, name, threshold) with the emoji left out
tree_stages ==
    << [name |-> "Seedling", threshold |-> 0],
       [name |-> "Sprout", threshold |-> 5],
       [name |-> "Small Tree", threshold |-> 10],
       [name |-> "Growing Forest", threshold |-> 20],
       [name |-> "Lush Ecosystem", threshold |-> 50] >>

\* next_stage = None
NoStage == [name |-> "None", threshold |-> NULL]

\* variant of the loop's comparison that needs the level above the threshold
ReachedStrictly(level, st) == level > st.threshold

\* if level >= tree_stages[i][2]
Reached(level, st) == level >= st.threshold

RECURSIVE stage_loop(_, _, _, _)
\* for i in range(len(tree_stages)), from the i-th stage on (counted from 1),
\* with current_stage and next_stage as assigned so far
stage_loop(level, i, current_stage, next_stage) ==
    IF i > Len(tree_stages)
    THEN [current |-> current_stage, next |-> next_stage]
    ELSE IF Reached(level, tree_stages[i])
    THEN stage_loop(level, i + 1, tree_stages[i],
                    IF i + 1 <= Len(tree_stages) THEN tree_stages[i + 1] ELSE NoStage)
    ELSE [current |-> current_stage, next |-> next_stage]

\* a / b of two ints and x * k: Python computes them in binary floating
\* point; the model keeps the exact fraction, from which the float differs by
\* rounding only (not at all when the value is an integer)
TrueDiv(a, b) == [num |-> a, den |-> b]

Times(x, k) == [num |-> x.num * k, den |-> x.den]

\* the template context of the forest view for a user at tree level `level`
forest_context(level) ==
    LET st == stage_loop(level, 1, tree_stages[1], tree_stages[2])
        level_range == st.next.threshold - st.current.threshold
        progress_in_range == level - st.current.threshold
    IN  [level |-> level,
         stage |-> st.current,
         next_stage |-> st.next,
         progress |-> IF st.next # NoStage /\ level_range > 0
                      THEN Times(TrueDiv(progress_in_range, level_range), 100)
                      ELSE [num |-> 0, den |-> 1]]

(* --------------------------- request forms ---------------------------- *)
\* POST / forms: item and the quantity field as the browser sends it
Forms ==
    { [item |-> "Cardboard", quantity |-> <<"2">>],
      [item |-> "Paper", quantity |-> <<"-", "1">>],
      [item |-> "Metal", quantity |-> <<"b", "a", "d">>] }

(* ------------------------------ state --------------------------------- *)
VARIABLES
    users,          \* user table: id -> [points, tree_level]
    pickups,        \* pickup table: id -> [user_id, item_type, quantity, status, rider_id]
    user_challenge, \* user_challenge table: [user_id, challenge_id] -> number of rows
    credited,       \* history: pickup id -> number of times its completion was credited
    response,       \* what the last request served alone answered: the flashed
                    \* message, a bare redirect, or an unhandled exception; a
                    \* request in flight keeps its answer in threads
    threads,        \* requests in flight (SpecConc only)
    call            \* the function call under evaluation (SpecCalls only)

vars == <<users, pickups, user_challenge, credited, response, threads, call>>

(* ------------------------ identity / sessions ------------------------- *)
\* The session cookie of a logged-in client keeps only the numeric id of the
\* User or Rider row that logged in (login_user stores get_id()).
Sessions == (DOMAIN users) \cup RiderIds

\* current_user of a request whose session cookie holds user_id
load_user(user_id) ==
    IF user_id \in DOMAIN users THEN [kind |-> "User", id |-> user_id]
    ELSE IF user_id \in RiderIds THEN [kind |-> "Rider", id |-> user_id]
    ELSE [kind |-> "Anonymous", id |-> NULL]

DigitChar(d) ==
    CASE d = 0 -> "0" [] d = 1 -> "1" [] d = 2 -> "2" [] d = 3 -> "3"
      [] d = 4 -> "4" [] d = 5 -> "5" [] d = 6 -> "6" [] d = 7 -> "7"
      [] d = 8 -> "8" [] d = 9 -> "9"

RECURSIVE str(_)
\* str(n) of an int n >= 0: its decimal digits
str(n) ==
    IF n < 10 THEN <<DigitChar(n)>>
    ELSE str(n \div 10) \o <<DigitChar(n % 10)>>

\* login_user(principal): the session keeps principal.get_id(), which is
\* str(principal.id) for a User and for a Rider alike
login_user(principal) == PyStr(str(principal.id))

\* current_user of a request: the user_loader applied to the session's id,
\* load_user(user_id) with its int(user_id)
current_user(user_id) == load_user(int(user_id).v)

(* ------------------------ rows and column defaults --------------------- *)
NewUser == [points |-> 0, tree_level |-> 0]

NewPickup(user_id, item, qty) ==
    [user_id |-> user_id, item_type |-> item, quantity |-> qty,
     status |-> "requested", rider_id |-> NULL]

NewCompletion(user_id, challenge_id) ==
    [user_id |-> user_id, challenge_id |-> challenge_id]

\* The user_challenge table as the number of rows it holds for each
\* (user_id, challenge_id); the surrogate id and completed_at are left out.
CompletionRows ==
    {NewCompletion(u, c) : u \in 1..MaxUsers, c \in DOMAIN Challenge}

EmptyTable == [row \in CompletionRows |-> 0]

RowCount(table, row) == table[row]

InsertRow(table, row) == [table EXCEPT ![row] = @ + 1]

\* variant of the table without its unique constraint
NoUniqueConstraint(table, row) == FALSE

\* UniqueConstraint('user_id', 'challenge_id'): the INSERT of row is refused
UniqueViolation(table, row) == RowCount(table, row) > 0

\* variant of the handler that inserts without looking for a record first
no_existing_check(table, user_id, challenge_id) == FALSE

\* UserChallenge.query.filter_by(user_id, challenge_id).first()
existing(table, user_id, challenge_id) ==
    RowCount(table, NewCompletion(user_id, challenge_id)) > 0

(* ------------------------ the handlers' conditions --------------------- *)
\* variant of the status check that refuses completed pickups only
OnlyCompletedIsTaken(p) == p.status = "completed"

\* variant of the status check that refuses assigned pickups only
OnlyAssignedIsTaken(p) == p.status = "assigned"

\* variant of rider_accept without a status check
NeverTaken(p) == FALSE

\* rider_accept: if p.status != 'requested'
AlreadyAssigned(p) == p.status # "requested"

\* variants of the ownership check: one that lets a pickup without a rider
\* through, one that checks nothing
NotAssignedToOther(p, cu) == p.rider_id # NULL /\ p.rider_id # cu.id

NoOwnerCheck(p, cu) == FALSE

\* rider_complete: if p.rider_id != current_user.id
NotAssignedTo(p, cu) == p.rider_id # cu.id

\* variant of index that forgets the increment
SameTreeLevel(u) == u.tree_level

\* index: current_user.tree_level = (current_user.tree_level or 0) + 1
NextTreeLevel(u) == u.tree_level + 1

\* rider_complete: u.points = (u.points or 0) + points_to_add
CreditPickup(u, p) ==
    u.points + calculate_points(p.item_type, PyInt(p.quantity))

\* complete_challenge: current_user.points = (current_user.points or 0) + reward
CreditChallenge(u, challenge_id) == u.points + Challenge[challenge_id]

(* ------------------- handlers, one request at a time ------------------- *)
\* no function is being evaluated on its own
NoCall == [fn |-> "none", args |-> <<>>, returned |-> FALSE, result |-> PyNone]

Init ==
    /\ users = <<>>
    /\ pickups = <<>>
    /\ user_challenge = EmptyTable
    /\ credited = <<>>
    /\ response = ""
    /\ threads = <<>>
    /\ call = NoCall

\* POST /signup (the submitted name and email are not in use)
signup ==
    /\ Len(users) < MaxUsers
    /\ users' = Append(users, NewUser)
    /\ response' = "redirect"
    /\ UNCHANGED <<pickups, user_challenge, credited, threads, call>>

\* POST /
index(s, form) ==
    LET cu == load_user(s)
        qty == int(PyStr(form.quantity))
    IN  /\ UNCHANGED <<user_challenge, threads, call>>
        /\ IF cu.kind # "User"
           THEN /\ response' = "redirect"
                /\ UNCHANGED <<users, pickups, credited>>
           ELSE IF ~qty.ok
           THEN /\ response' = "ValueError"
                /\ UNCHANGED <<users, pickups, credited>>
           ELSE /\ Len(pickups) < MaxPickups
                /\ pickups' = Append(pickups, NewPickup(cu.id, form.item, qty.v))
                /\ credited' = Append(credited, 0)
                /\ users' = [users EXCEPT ![cu.id].tree_level = NextTreeLevel(users[cu.id])]
                /\ response' = "Your pickup is scheduled!"

\* variant of the handler without its "if not challenge" branch: an absent
\* challenge reaches challenge.points_reward, which raises AttributeError
complete_challenge_unchecked(s, challenge_id) ==
    LET cu == load_user(s)
        row == NewCompletion(cu.id, challenge_id)
    IN  /\ UNCHANGED <<pickups, credited, threads, call>>
        /\ IF cu.kind # "User"
           THEN /\ response' = "redirect"
                /\ UNCHANGED <<users, user_challenge>>
           ELSE IF challenge_id \notin DOMAIN Challenge
           THEN /\ response' = "AttributeError"
                /\ UNCHANGED <<users, user_challenge>>
           ELSE IF existing(user_challenge, cu.id, challenge_id)
           THEN /\ response' = "You already completed this challenge!"
                /\ UNCHANGED <<users, user_challenge>>
           ELSE IF UniqueViolation(user_challenge, row)
           THEN /\ response' = "IntegrityError"
                /\ UNCHANGED <<users, user_challenge>>
           ELSE /\ user_challenge' = InsertRow(user_challenge, row)
                /\ users' = [users EXCEPT ![cu.id].points =
                                CreditChallenge(users[cu.id], challenge_id)]
                /\ response' = "Challenge completed!"

\* POST /challenges/complete/<challenge_id>
complete_challenge(s, challenge_id) ==
    LET cu == load_user(s)
        row == NewCompletion(cu.id, challenge_id)
    IN  /\ UNCHANGED <<pickups, credited, threads, call>>
        /\ IF cu.kind # "User"
           THEN /\ response' = "redirect"
                /\ UNCHANGED <<users, user_challenge>>
           ELSE IF challenge_id \notin DOMAIN Challenge
           THEN /\ response' = "Challenge not found!"
                /\ UNCHANGED <<users, user_challenge>>
           ELSE IF existing(user_challenge, cu.id, challenge_id)
           THEN /\ response' = "You already completed this challenge!"
                /\ UNCHANGED <<users, user_challenge>>
           ELSE IF UniqueViolation(user_challenge, row)
           THEN /\ response' = "IntegrityError"
                /\ UNCHANGED <<users, user_challenge>>
           ELSE /\ user_challenge' = InsertRow(user_challenge, row)
                /\ users' = [users EXCEPT ![cu.id].points =
                                CreditChallenge(users[cu.id], challenge_id)]
                /\ response' = "Challenge completed!"

\* POST /rider/accept/<pickup_id>
rider_accept(s, pickup_id) ==
    LET cu == load_user(s)
    IN  /\ UNCHANGED <<users, user_challenge, credited, threads, call>>
        /\ IF cu.kind # "Rider"
           THEN /\ response' = "Rider access only"
                /\ UNCHANGED pickups
           ELSE IF pickup_id \notin DOMAIN pickups
           THEN /\ response' = "Pickup not found"
                /\ UNCHANGED pickups
           ELSE IF AlreadyAssigned(pickups[pickup_id])
           THEN /\ response' = "Pickup already assigned"
                /\ UNCHANGED pickups
           ELSE /\ pickups' = [pickups EXCEPT ![pickup_id].rider_id = cu.id,
                                              ![pickup_id].status = "assigned"]
                /\ response' = "Pickup accepted"

\* POST /rider/complete/<pickup_id>
rider_complete(s, pickup_id) ==
    LET cu == load_user(s)
    IN  /\ UNCHANGED <<user_challenge, threads, call>>
        /\ IF cu.kind # "Rider"
           THEN /\ response' = "Rider access only"
                /\ UNCHANGED <<users, pickups, credited>>
           ELSE IF pickup_id \notin DOMAIN pickups
           THEN /\ response' = "Pickup not found"
                /\ UNCHANGED <<users, pickups, credited>>
           ELSE IF NotAssignedTo(pickups[pickup_id], cu)
           THEN /\ response' = "This pickup is not assigned to you"
                /\ UNCHANGED <<users, pickups, credited>>
           ELSE LET p == pickups[pickup_id]
                IN  /\ credited[pickup_id] < MaxCredits
                    /\ pickups' = [pickups EXCEPT ![pickup_id].status = "completed"]
                    /\ users' = [users EXCEPT ![p.user_id].points =
                                    CreditPickup(users[p.user_id], p)]
                    /\ credited' = [credited EXCEPT ![pickup_id] = @ + 1]
                    /\ response' = "Pickup completed!"

Next ==
    \/ signup
    \/ \E s \in Sessions, form \in Forms : index(s, form)
    \/ \E s \in Sessions, c \in ChallengeInputs : complete_challenge(s, c)
    \/ \E s \in Sessions, p \in PickupInputs : rider_accept(s, p)
    \/ \E s \in Sessions, p \in PickupInputs : rider_complete(s, p)

Spec == Init /\ [][Next]_vars

(* --------------- handlers, two requests in flight ---------------------- *)
\* Each request runs in a session of its own (Flask-SQLAlchemy scopes the
\* session to the request).  Rows are read by SELECTs outside a transaction;
\* attribute writes stay in the session until commit(), which flushes the
\* changed columns and commits them in one SQLite write transaction.
Threads == {"A", "B"}

NoOne == [kind |-> "Anonymous", id |-> NULL]

Idle ==
    [pc |-> "idle", op |-> "none", cu |-> NoOne, arg |-> NULL,
     p |-> NewPickup(NULL, "", 0), u |-> NewUser, response |-> ""]

\* the response is sent and the request's session, with the rows it loaded,
\* is discarded
Finish(th, resp) ==
    [th EXCEPT !.pc = "done", !.response = resp, !.p = Idle.p, !.u = Idle.u]

AllIdle == \A t \in DOMAIN threads : threads[t].pc = "idle"

InitConc ==
    /\ users = <<>>
    /\ pickups = <<>>
    /\ user_challenge = EmptyTable
    /\ credited = <<>>
    /\ response = ""
    /\ threads = [t \in Threads |-> Idle]
    /\ call = NoCall

\* Before the two requests arrive the store is filled by requests served
\* one at a time.
Setup ==
    /\ AllIdle
    /\ \/ signup
       \/ \E s \in Sessions, form \in Forms : index(s, form)
       \/ \E s \in Sessions, p \in PickupInputs : rider_accept(s, p)

\* The two requests are named in their order of arrival: A is the first.
Arrives(t) ==
    /\ threads[t].pc = "idle"
    /\ t = "B" => threads["A"].pc # "idle"

\* complete_challenge up to its first query: load_user reads the user row,
\* db.session.get(Challenge, id) the static challenge table
BeginChallenge(t, s, challenge_id) ==
    LET cu == load_user(s)
        th == [Idle EXCEPT !.op = "complete_challenge", !.cu = cu, !.arg = challenge_id]
    IN  /\ Arrives(t)
        /\ threads' = [threads EXCEPT ![t] =
              IF cu.kind # "User" THEN Finish(th, "redirect")
              ELSE IF challenge_id \notin DOMAIN Challenge
              THEN Finish(th, "Challenge not found!")
              ELSE [th EXCEPT !.pc = "query_existing", !.u = users[cu.id]]]
        /\ response' = ""
        /\ UNCHANGED <<users, pickups, user_challenge, credited, call>>

\* existing = UserChallenge.query.filter_by(...).first(), and the pending
\* INSERT and points write that follow it in the session
QueryExisting(t) ==
    LET th == threads[t]
    IN  /\ th.pc = "query_existing"
        /\ threads' = [threads EXCEPT ![t] =
              IF existing(user_challenge, th.cu.id, th.arg)
              THEN Finish(th, "You already completed this challenge!")
              ELSE [th EXCEPT !.pc = "commit"]]
        /\ UNCHANGED <<users, pickups, user_challenge, credited, response, call>>

\* rider_accept / rider_complete up to the role check
BeginRider(t, s, op, pickup_id) ==
    LET cu == load_user(s)
        th == [Idle EXCEPT !.op = op, !.cu = cu, !.arg = pickup_id]
    IN  /\ Arrives(t)
        /\ threads' = [threads EXCEPT ![t] =
              IF cu.kind # "Rider" THEN Finish(th, "Rider access only")
              ELSE [th EXCEPT !.pc = "get_pickup"]]
        /\ response' = ""
        /\ UNCHANGED <<users, pickups, user_challenge, credited, call>>

\* p = db.session.get(Pickup, pickup_id) and the checks made on the loaded row
GetPickup(t) ==
    LET th == threads[t]
    IN  /\ th.pc = "get_pickup"
        /\ threads' = [threads EXCEPT ![t] =
              IF th.arg \notin DOMAIN pickups THEN Finish(th, "Pickup not found")
              ELSE LET p == pickups[th.arg]
                   IN  IF th.op = "rider_accept"
                       THEN IF AlreadyAssigned(p)
                            THEN Finish(th, "Pickup already assigned")
                            ELSE [th EXCEPT !.pc = "commit", !.p = p]
                       ELSE IF NotAssignedTo(p, th.cu)
                            THEN Finish(th, "This pickup is not assigned to you")
                            ELSE [th EXCEPT !.pc = "get_user", !.p = p]]
        /\ UNCHANGED <<users, pickups, user_challenge, credited, response, call>>

\* u = db.session.get(User, p.user_id)
GetUser(t) ==
    LET th == threads[t]
    IN  /\ th.pc = "get_user"
        /\ threads' = [threads EXCEPT ![t] =
              [th EXCEPT !.pc = "commit", !.u = users[th.p.user_id]]]
        /\ UNCHANGED <<users, pickups, user_challenge, credited, response, call>>

\* db.session.commit() of rider_accept:
\* UPDATE pickup SET rider_id = ?, status = 'assigned' WHERE id = ?
CommitAccept(t) ==
    LET th == threads[t]
    IN  /\ th.pc = "commit" /\ th.op = "rider_accept"
        /\ pickups' = [pickups EXCEPT ![th.arg].rider_id = th.cu.id,
                                      ![th.arg].status = "assigned"]
        /\ threads' = [threads EXCEPT ![t] = Finish(th, "Pickup accepted")]
        /\ UNCHANGED <<users, user_challenge, credited, response, call>>

\* db.session.commit() of rider_complete: the UPDATEs carry the values the
\* session computed from the rows it loaded, for the columns that changed
CommitComplete(t) ==
    LET th == threads[t]
        points == CreditPickup(th.u, th.p)
    IN  /\ th.pc = "commit" /\ th.op = "rider_complete"
        /\ pickups' = [pickups EXCEPT ![th.arg].status = "completed"]
        /\ users' = IF points = th.u.points THEN users
                    ELSE [users EXCEPT ![th.p.user_id].points = points]
        /\ credited' = [credited EXCEPT ![th.arg] = @ + 1]
        /\ threads' = [threads EXCEPT ![t] = Finish(th, "Pickup completed!")]
        /\ UNCHANGED <<user_challenge, response, call>>

\* db.session.commit() of complete_challenge: UPDATE user SET points and
\* INSERT INTO user_challenge in one transaction; a refused INSERT raises
\* IntegrityError and the transaction is rolled back
CommitChallenge(t) ==
    LET th == threads[t]
        row == NewCompletion(th.cu.id, th.arg)
    IN  /\ th.pc = "commit" /\ th.op = "complete_challenge"
        /\ UNCHANGED <<pickups, credited, response, call>>
        /\ IF UniqueViolation(user_challenge, row)
           THEN /\ threads' = [threads EXCEPT ![t] = Finish(th, "IntegrityError")]
                /\ UNCHANGED <<users, user_challenge>>
           ELSE /\ user_challenge' = InsertRow(user_challenge, row)
                /\ users' = [users EXCEPT ![th.cu.id].points =
                                CreditChallenge(th.u, th.arg)]
                /\ threads' = [threads EXCEPT ![t] = Finish(th, "Challenge completed!")]

NextConc ==
    \/ Setup
    \/ \E t \in Threads, s \in Sessions, c \in ChallengeInputs : BeginChallenge(t, s, c)
    \/ \E t \in Threads, s \in Sessions, p \in PickupInputs :
          BeginRider(t, s, "rider_accept", p)
    \/ \E t \in Threads, s \in Sessions, p \in PickupInputs :
          BeginRider(t, s, "rider_complete", p)
    \/ \E t \in Threads : QueryExisting(t)
    \/ \E t \in Threads : GetPickup(t)
    \/ \E t \in Threads : GetUser(t)
    \/ \E t \in Threads : CommitAccept(t)
    \/ \E t \in Threads : CommitComplete(t)
    \/ \E t \in Threads : CommitChallenge(t)

SpecConc == InitConc /\ [][NextConc]_vars

(* ------------------ the functions evaluated on their own --------------- *)
\* item categories: the six of the table and one the table does not list
Items ==
    {"Plastic Bottles", "Cardboard", "Electronics", "Metal", "Glass", "E-Waste",
     "Unknown"}

\* quantities: integers, numeric and non-numeric strings, None
Quantities ==
    {PyInt(n) : n \in -1..MaxQuantity}
        \cup {PyStr(<<"3">>), PyStr(<<"b", "a", "d">>), PyStr(<<>>), PyNone}

\* tree levels: (current_user.tree_level or 0) of a stored user
Levels == 0..MaxLevel

Call(fn, args) == [fn |-> fn, args |-> args, returned |-> FALSE, result |-> PyNone]

Calls ==
    {Call("calculate_points", <<item, qty>>) : item \in Items, qty \in Quantities}
        \cup {Call("forest", <<level>>) : level \in Levels}

InitCalls ==
    /\ users = <<>>
    /\ pickups = <<>>
    /\ user_challenge = EmptyTable
    /\ credited = <<>>
    /\ response = ""
    /\ threads = <<>>
    /\ call \in Calls

Returns(result) ==
    /\ ~call.returned
    /\ call' = [call EXCEPT !.returned = TRUE, !.result = result]
    /\ UNCHANGED <<users, pickups, user_challenge, credited, response, threads>>

CallCalculatePoints ==
    /\ call.fn = "calculate_points"
    /\ Returns(PyInt(calculate_points(call.args[1], call.args[2])))

CallForest ==
    /\ call.fn = "forest"
    /\ Returns(forest_context(call.args[1]))

NextCalls == CallCalculatePoints \/ CallForest

SpecCalls == InitCalls /\ [][NextCalls]_vars

(* ======================= properties, sequential ======================= *)
Completed(p) == p.status = "completed"

\* score(category, quantity) of a stored pickup
Score(p) == calculate_points(p.item_type, PyInt(p.quantity))

RECURSIVE CompletedScores(_, _)
\* sum of Score over the completed pickups of user u among pickups 1..n
CompletedScores(u, n) ==
    IF n = 0 THEN 0
    ELSE CompletedScores(u, n - 1)
           + (IF pickups[n].user_id = u /\ Completed(pickups[n])
              THEN Score(pickups[n]) ELSE 0)

RECURSIVE CreditedScores(_, _)
\* sum of Score times the number of credits applied, over u's pickups 1..n
CreditedScores(u, n) ==
    IF n = 0 THEN 0
    ELSE CreditedScores(u, n - 1)
           + (IF pickups[n].user_id = u THEN credited[n] * Score(pickups[n]) ELSE 0)

RECURSIVE Rewards(_, _)
\* sum of points_reward over the distinct challenges 1..n that u has a record for
Rewards(u, n) ==
    IF n = 0 THEN 0
    ELSE Rewards(u, n - 1)
           + (IF RowCount(user_challenge, NewCompletion(u, n)) > 0 THEN Challenge[n] ELSE 0)

\* C1: every user's balance equals the scores of that user's completed pickups
\* plus the rewards of the distinct challenges the user has a record for.
C1_LedgerInvariant ==
    \A u \in DOMAIN users :
        users[u].points
            = CompletedScores(u, Len(pickups)) + Rewards(u, Len(Challenge))

\* C2: the completion credit of a pickup is applied exactly once when the
\* pickup is completed (and never before): never twice.
C2_CreditedOnce ==
    \A p \in DOMAIN pickups :
        credited[p] = IF Completed(pickups[p]) THEN 1 ELSE 0

StatusRank(st) ==
    CASE st = "requested" -> 0 [] st = "assigned" -> 1 [] st = "completed" -> 2

\* C3: every step leaves a pickup's status or advances it by one stage, and the
\* step assigned -> completed is a rider_complete request whose current actor
\* is the Rider stored as the pickup's rider.
C3_StatusLinear ==
    [][\A p \in DOMAIN pickups :
          LET a == pickups[p].status
              b == pickups'[p].status
          IN  \/ a = b
              \/ a = "requested" /\ b = "assigned"
              \/ /\ a = "assigned" /\ b = "completed"
                 /\ \E s \in Sessions :
                       /\ load_user(s) = [kind |-> "Rider", id |-> pickups[p].rider_id]
                       /\ rider_complete(s, p)]_vars

C3_Witness ==
    \E p \in DOMAIN pickups :
        Completed(pickups[p]) /\ pickups[p].rider_id \in RiderIds

\* C4: a rider's rider_accept on a pickup that is not requested answers
\* "Pickup already assigned" and changes no pickup and no user.
C4_AlreadyClaimed ==
    [][\A r \in RiderIds, p \in DOMAIN pickups :
          /\ load_user(r).kind = "Rider"
          /\ pickups[p].status # "requested"
          /\ rider_accept(r, p)
          => /\ response' = "Pickup already assigned"
             /\ pickups' = pickups
             /\ users' = users]_vars

C4_Witness ==
    /\ response = "Pickup already assigned"
    /\ \E p \in DOMAIN pickups : Completed(pickups[p])

\* C5: rider_complete by a rider other than the pickup's rider (a requested
\* pickup has none) answers "This pickup is not assigned to you" and changes
\* neither the pickup nor any balance.
C5_NotOwnedByRider ==
    [][\A r \in RiderIds, p \in DOMAIN pickups :
          /\ load_user(r).kind = "Rider"
          /\ pickups[p].rider_id # r
          /\ rider_complete(r, p)
          => /\ response' = "This pickup is not assigned to you"
             /\ pickups' = pickups
             /\ users' = users]_vars

C5_Witness ==
    /\ response = "This pickup is not assigned to you"
    /\ \E p \in DOMAIN pickups : pickups[p].rider_id = NULL

\* C6: the first complete_challenge of a user for a challenge inserts one
\* record and adds the reward; every later one answers "You already completed
\* this challenge!" and changes nothing; so after every step that changes the
\* store there is at most one record per pair and the balance, net of the
\* pickup credits, holds each recorded challenge's reward exactly once.
C6_Totals ==
    \A u \in DOMAIN users :
        /\ \A c \in DOMAIN Challenge :
              RowCount(user_challenge, NewCompletion(u, c)) <= 1
        /\ users[u].points - CreditedScores(u, Len(pickups))
              = Rewards(u, Len(Challenge))

C6_ChallengeOnce ==
    [][/\ \A u \in DOMAIN users, c \in ChallengeInputs \cap DOMAIN Challenge :
             LET row == NewCompletion(u, c)
             IN  complete_challenge(u, c)
                 => IF RowCount(user_challenge, row) > 0
                    THEN /\ response' = "You already completed this challenge!"
                         /\ user_challenge' = user_challenge
                         /\ users' = users
                    ELSE /\ response' = "Challenge completed!"
                         /\ user_challenge' = InsertRow(user_challenge, row)
                         /\ users'[u].points = users[u].points + Challenge[c]
       /\ UNCHANGED <<users, pickups, user_challenge, credited>> \/ C6_Totals']_vars

C6_Witness ==
    /\ response = "You already completed this challenge!"
    /\ \E u \in DOMAIN users :
          /\ RowCount(user_challenge, NewCompletion(u, 4)) = 1
          /\ users[u].points - CreditedScores(u, Len(pickups)) = Challenge[4]

PickupsOf(u) == {p \in DOMAIN pickups : pickups[p].user_id = u}

\* C10: tree_level grows by exactly 1 in the step that stores a new pickup of
\* the user, is left alone by every other step (no pickup is removed or given
\* to another user), and always equals the number of pickups the user created.
C10_Count ==
    \A u \in DOMAIN users : users[u].tree_level = Cardinality(PickupsOf(u))

C10_TreeLevel ==
    [][/\ \A u \in DOMAIN users :
             LET n == Len(pickups')
                 created == n = Len(pickups) + 1 /\ pickups'[n].user_id = u
             IN  users'[u].tree_level
                     = users[u].tree_level + (IF created THEN 1 ELSE 0)
       /\ Len(pickups') >= Len(pickups)
       /\ \A p \in DOMAIN pickups : pickups'[p].user_id = pickups[p].user_id
       /\ C10_Count']_vars

C10_Witness ==
    \E u \in DOMAIN users :
        /\ users[u].tree_level = MaxPickups
        /\ \E p \in PickupsOf(u) : Completed(pickups[p])

(* ======================= properties, concurrent ======================= *)
Done(t, op, resp) ==
    /\ threads[t].pc = "done"
    /\ threads[t].op = op
    /\ threads[t].response = resp

\* C7: of the rider_accept requests of different riders on one pickup at most
\* one ends with "Pickup accepted"; the rider stored on the pickup is the
\* rider whose request was accepted.
C7_OneClaimWins ==
    \A t \in Threads :
        Done(t, "rider_accept", "Pickup accepted")
            => /\ pickups[threads[t].arg].rider_id = threads[t].cu.id
               /\ \A o \in Threads \ {t} :
                     /\ Done(o, "rider_accept", "Pickup accepted")
                     /\ threads[o].arg = threads[t].arg
                     => threads[o].cu = threads[t].cu

\* both requests are complete_challenge of user u for challenge c
BothChallenge(u, c) ==
    \A t \in Threads :
        /\ threads[t].op = "complete_challenge"
        /\ threads[t].cu = [kind |-> "User", id |-> u]
        /\ threads[t].arg = c

\* C8: while two complete_challenge requests for the same (user, challenge)
\* interleave, the pair has at most one record, the balance holds the reward
\* iff the record exists, and when both have ended the record exists and the
\* reward was added once.
C8_ChallengeAtomic ==
    \A u \in DOMAIN users, c \in DOMAIN Challenge :
        BothChallenge(u, c)
            => LET n == RowCount(user_challenge, NewCompletion(u, c))
               IN  /\ n <= 1
                   /\ users[u].points = n * Challenge[c]
                   /\ (\A t \in Threads : threads[t].pc = "done") => n = 1

C8_Witness ==
    \E u \in DOMAIN users, c \in DOMAIN Challenge :
        /\ BothChallenge(u, c)
        /\ \E t \in Threads : Done(t, "complete_challenge", "Challenge completed!")
        /\ \E t \in Threads : Done(t, "complete_challenge", "IntegrityError")

\* the amount a finished crediting request added for user u (0 if it is none)
Credit(t, u) ==
    LET th == threads[t]
    IN  IF /\ Done(t, "rider_complete", "Pickup completed!")
           /\ pickups[th.arg].user_id = u
        THEN Score(pickups[th.arg])
        ELSE IF /\ Done(t, "complete_challenge", "Challenge completed!")
                /\ th.cu.id = u
        THEN Challenge[th.arg]
        ELSE 0

\* C9: when the two requests both credit user u (two completions of different
\* pickups of u, or a pickup completion and a challenge completion), the
\* balance ends at the initial balance, 0, plus both amounts.
C9_NoLostUpdate ==
    \A u \in DOMAIN users :
        /\ Credit("A", u) # 0 /\ Credit("B", u) # 0
        /\ \/ threads["A"].op # threads["B"].op
           \/ /\ threads["A"].op = "rider_complete"
              /\ threads["A"].arg # threads["B"].arg
              /\ threads["A"].cu # threads["B"].cu
        => users[u].points = 0 + Credit("A", u) + Credit("B", u)

(* ================= properties, balance and pickup rows ================= *)
\* C11: every user's balance is a non-negative integer and no request lowers
\* it, whatever integer quantity index accepted from the request form.
C11_BalanceMonotone ==
    [][\A u \in DOMAIN users :
          /\ users'[u].points \in Nat
          /\ users'[u].points >= users[u].points]_vars

\* C16: once a pickup is completed no later request changes its status,
\* rider, item category, quantity or owning user.
C16_CompletedImmutable ==
    [][\A p \in DOMAIN pickups :
          Completed(pickups[p])
          => /\ p \in DOMAIN pickups'
             /\ pickups'[p] = pickups[p]]_vars

C16_Witness ==
    \E p \in DOMAIN pickups :
        /\ Completed(pickups[p])
        /\ credited[p] > 1
        /\ response = "Pickup completed!"

\* the rider column agrees with the status column
C17_RiderMatchesStatus ==
    \A p \in DOMAIN pickups :
        /\ pickups[p].rider_id = NULL <=> pickups[p].status = "requested"
        /\ pickups[p].status \in {"assigned", "completed"}
              => pickups[p].rider_id \in RiderIds

\* C17: a pickup has no rider exactly while it is requested and one rider when
\* it is assigned or completed, and a rider once stored on a pickup is never
\* replaced or cleared by a later request.
C17_RiderAssignment ==
    [][/\ C17_RiderMatchesStatus'
       /\ \A p \in DOMAIN pickups :
             pickups[p].rider_id # NULL
             => pickups'[p].rider_id = pickups[p].rider_id]_vars

C17_Witness ==
    \E p \in DOMAIN pickups :
        /\ pickups[p].status = "assigned"
        /\ pickups[p].rider_id \in RiderIds
        /\ response = "Pickup already assigned"

(* ====================== properties, pure functions ===================== *)
\* the scoring table as the contract states it
C12_Table ==
    ("Plastic Bottles" :> 2) @@ ("Cardboard" :> 5) @@ ("Electronics" :> 10)
        @@ ("Metal" :> 8) @@ ("Glass" :> 6) @@ ("E-Waste" :> 12)

C12_Lookup(c) == IF c \in DOMAIN C12_Table THEN C12_Table[c] ELSE 1

\* calculate_points has returned for category c and the integer q
Scored(c, q) ==
    /\ call.fn = "calculate_points"
    /\ call.returned
    /\ call.args = <<c, PyInt(q)>>

\* C12: for every category c and integer q >= 0, calculate_points(c, q) is
\* lookup(c) * q with lookup 1 for an unlisted category; it is never negative,
\* it is 0 for q = 0, it is 15 for (Cardboard, 3) and 4 for (Unknown, 4).
C12_ScoreFormula ==
    \A c \in Items, q \in 0..MaxQuantity :
        Scored(c, q) =>
            /\ call.result = PyInt(C12_Lookup(c) * q)
            /\ call.result.v >= 0
            /\ q = 0 => call.result.v = 0
            /\ c = "Cardboard" /\ q = 3 => call.result.v = 15
            /\ c = "Unknown" /\ q = 4 => call.result.v = 4

C12_Witness == Scored("Unknown", 4) /\ call.result = PyInt(4)

\* the ordered list of stage thresholds as the contract states it
C13_Thresholds == <<0, 5, 10, 20, 50>>

\* the forest view has returned for tree level l
Staged(l) ==
    /\ call.fn = "forest"
    /\ call.returned
    /\ call.args = <<l>>

\* position in the list of the greatest threshold that is <= l
C13_Position(l) ==
    CHOOSE i \in DOMAIN C13_Thresholds :
        /\ C13_Thresholds[i] <= l
        /\ \A j \in DOMAIN C13_Thresholds :
              C13_Thresholds[j] <= l => C13_Thresholds[j] <= C13_Thresholds[i]

\* C13: for every level >= 0 the forest view returns as current stage the one
\* with the greatest threshold <= level, as next stage the following entry of
\* the list (None exactly when level >= 50), and as percent
\* (level - current) / (next - current) * 100 when there is a next stage and 0
\* otherwise; the percent lies in [0, 100); level 0 gives (Seedling, Sprout,
\* 0), level 7 gives (Sprout, Small Tree, 40), level 50 gives (Lush Ecosystem,
\* None, 0).
C13_StageFormula ==
    \A l \in Levels :
        Staged(l) =>
            LET r == call.result
                i == C13_Position(l)
                cur == C13_Thresholds[i]
                pct == r.progress
            IN  /\ r.stage = tree_stages[i]
                /\ r.stage.threshold = cur
                /\ r.next_stage =
                      (IF i < Len(C13_Thresholds) THEN tree_stages[i + 1] ELSE NoStage)
                /\ r.next_stage = NoStage <=> l >= 50
                /\ pct.den > 0
                /\ IF r.next_stage # NoStage
                   THEN /\ r.next_stage.threshold = C13_Thresholds[i + 1]
                        /\ pct.num * (C13_Thresholds[i + 1] - cur)
                              = (l - cur) * 100 * pct.den
                   ELSE pct.num = 0
                /\ 0 <= pct.num /\ pct.num < 100 * pct.den
                /\ l = 0 => /\ r.stage.name = "Seedling"
                            /\ r.next_stage.name = "Sprout"
                            /\ pct.num = 0
                /\ l = 7 => /\ r.stage.name = "Sprout"
                            /\ r.next_stage.name = "Small Tree"
                            /\ pct.num = 40 * pct.den
                /\ l = 50 => /\ r.stage.name = "Lush Ecosystem"
                             /\ r.next_stage = NoStage
                             /\ pct.num = 0

C13_Witness ==
    /\ Staged(7)
    /\ call.result.stage.name = "Sprout"
    /\ call.result.progress = [num |-> 200, den |-> 5]

(* ==================== properties, errors and identity ================== *)
\* C14: a quantity that does not coerce to an integer degrades to 0 and never
\* becomes a crash: a POST / carrying such a quantity ends in a user-facing
\* outcome, not in an unhandled exception, and leaves the store consistent.
C14_InvalidInputDegrades ==
    [][\A s \in DOMAIN users, form \in Forms :
          /\ ~int(PyStr(form.quantity)).ok
          /\ index(s, form)
          => /\ response' # "ValueError"
             /\ \A p \in DOMAIN pickups' : pickups'[p].user_id \in DOMAIN users']_vars

\* C15: a request that names an absent challenge or pickup is answered with
\* the not-found message and changes no pickup, completion record, balance or
\* tree level.
C15_NotFound ==
    [][/\ \A u \in DOMAIN users, c \in ChallengeInputs \ DOMAIN Challenge :
             complete_challenge(u, c)
             => /\ response' = "Challenge not found!"
                /\ UNCHANGED <<users, pickups, user_challenge, credited>>
       /\ \A r \in RiderIds, p \in PickupInputs \ DOMAIN pickups :
             /\ load_user(r).kind = "Rider"
             /\ rider_accept(r, p) \/ rider_complete(r, p)
             => /\ response' = "Pickup not found"
                /\ UNCHANGED <<users, pickups, user_challenge, credited>>]_vars

C15_Witness ==
    /\ response = "Challenge not found!"
    /\ users # <<>>
    /\ pickups # <<>>

\* C18: the current actor keeps the role it logged in with, also when a User
\* and a Rider have the same id: the session of a Rider login resolves on a
\* later request to that Rider, never to a User, and the session of a User
\* login resolves to that User, never to a Rider.
C18_RoleKept ==
    /\ \A r \in RiderIds :
          LET rider == [kind |-> "Rider", id |-> r]
          IN  current_user(login_user(rider)) = rider
    /\ \A u \in DOMAIN users :
          LET user == [kind |-> "User", id |-> u]
          IN  current_user(login_user(user)) = user

====
